---- MODULE Spec2Model ----
(***************************************************************************)
(* termrecord watcher daemon: the recording index (SQLite), the export     *)
(* queue worker, the retention cleanup, the file watcher with its          *)
(* ingestion handler and the service lifecycle.                            *)
(*                                                                         *)
(* Granularity.  The daemon is one asyncio event loop.  A task runs        *)
(* without interruption from one await to the next, so one action of the   *)
(* model is the code a task runs between two awaits.  A statement passed   *)
(* to the connection is queued for the connection's thread when the call   *)
(* is made and every write is followed by its commit, so a write takes     *)
(* effect in the step that issues it.  Task.cancel() ends a task at the    *)
(* await it is suspended on: CancelledError is not an Exception, so the    *)
(* handlers written "except Exception" do not run.                         *)
(***************************************************************************)
EXTENDS Integers, Sequences, FiniteSets, TLC

-----------------------------------------------------------------------------
(* Bounds of the model *)

MaxRecs == 2
MaxJobs == 2
MaxDays == 3
MaxStarts == 2
MaxStored == 2
MaxConns == 2

\* Recordings in the Store of a specification of list requests
MaxListed == 3

\* Characters in a working directory and in a cwd prefix
MaxLen == 2

\* Program constants: max_age_days * 86400 and max_size_gb * 1024 * 1024 * 1024
SecondsPerDay == 86400

MiBPerGb == 1024

RecName == <<"r1", "r2", "r3", "r4", "r5", "r6">>
RecIds == {RecName[i] : i \in 1..MaxRecs}

-----------------------------------------------------------------------------
(* Paths.  A file name is its dot-separated components: r1.meta.json is    *)
(* <<"r1", "meta", "json">>.  NULL is the path with no component.          *)

NULL == <<>>

\* A string is the sequence of its characters; the working directory the
\* recorder writes unless a specification says otherwise
Home == <<"a">>

MetaPath(b) == <<b, "meta", "json">>

CastPath(b) == <<b, "cast">>

\* pathlib.PurePath.with_suffix: the last component is replaced
with_suffix(p, s) == SubSeq(p, 1, Len(p) - 1) \o <<s>>

\* meta_path.stem.replace(".meta", ""): drop the last component, then every
\* "meta" component of what is left
StemId(p) ==
  LET stem == SubSeq(p, 1, Len(p) - 1)
      kept == SelectSeq(stem, LAMBDA c : c # "meta")
  IN  kept[1]

\* path.suffix == ".json" and ".meta" in path.name
Qualifies(p) ==
  /\ Len(p) >= 2
  /\ p[Len(p)] = "json"
  /\ \E i \in 2..Len(p) : p[i] = "meta"

-----------------------------------------------------------------------------
VARIABLES
  now,          \* wall clock, in seconds
  files,        \* the recordings directory: path -> size in bytes
  meta_json,    \* content of the metadata files: path -> RecordingMetadata
  recordings,   \* table recordings: id -> row
  export_queue, \* table export_queue: sequence of rows, id = position
  config,       \* the Config the service was built with
  svc,          \* WatcherService: lifecycle state and number of starts
  watcher,      \* FileWatcher task and the ingestion handler it runs
  worker,       \* ExportQueue task
  cleaners,     \* CleanupScheduler: run_cleanup of the timer loop and of
                \* each connection that asked for a cleanup
  server,       \* StatusServer: the listening socket and its connections
  hist          \* history of the run, read by the properties only

vars ==
  <<now, files, meta_json, recordings, export_queue, config, svc, watcher,
    worker, cleaners, server, hist>>

-----------------------------------------------------------------------------
(* Recording Store: indexer.py *)

\* INSERT OR REPLACE INTO recordings: the rows in conflict with the new row on
\* the PRIMARY KEY id or on UNIQUE atuin_id (NULL conflicts with nothing) are
\* deleted, then the new row is inserted; indexed_at is not in the column
\* list and takes its DEFAULT, the time of the statement.
\* (mutant: a table without the UNIQUE constraint on atuin_id)
InsertOrReplaceById(recs, meta, meta_path, t) ==
  LET conflict == {r \in DOMAIN recs : r = meta.id}
      row == [atuin_id |-> meta.atuin_id,
              timestamp |-> meta.timestamp,
              exit_code |-> meta.exit_code,
              cwd |-> meta.cwd,
              cast_path |-> meta.cast,
              gif_path |-> meta.gif,
              meta_path |-> meta_path,
              indexed_at |-> t]
  IN  [r \in (DOMAIN recs \ conflict) \cup {meta.id} |->
         IF r = meta.id THEN row ELSE recs[r]]

InsertOrReplace(recs, meta, meta_path, t) ==
  LET conflict ==
        {r \in DOMAIN recs :
           \/ r = meta.id
           \/ meta.atuin_id # NULL /\ recs[r].atuin_id = meta.atuin_id}
      row == [atuin_id |-> meta.atuin_id,
              timestamp |-> meta.timestamp,
              exit_code |-> meta.exit_code,
              cwd |-> meta.cwd,
              cast_path |-> meta.cast,
              gif_path |-> meta.gif,
              meta_path |-> meta_path,
              indexed_at |-> t]
  IN  [r \in (DOMAIN recs \ conflict) \cup {meta.id} |->
         IF r = meta.id THEN row ELSE recs[r]]

\* DELETE FROM recordings WHERE id = ?
DeleteRow(recs, id) == [r \in DOMAIN recs \ {id} |-> recs[r]]

\* UPDATE recordings SET gif_path = ? WHERE id = ?
SetGifPath(recs, id, gif) ==
  [r \in DOMAIN recs |-> IF r = id THEN [recs[r] EXCEPT !.gif_path = gif]
                                   ELSE recs[r]]

-----------------------------------------------------------------------------
(* Export queue: exporter.py *)

\* INSERT INTO export_queue (recording_id, export_type, status)
\* VALUES (?, ?, 'pending'); created_at takes its DEFAULT
InsertJob(q, recording_id, export_type, t) ==
  Append(q, [recording_id |-> recording_id,
             export_type |-> export_type,
             status |-> "pending",
             created_at |-> t,
             completed_at |-> 0,
             error |-> ""])

\* The rows of: export_queue eq JOIN recordings r ON eq.recording_id = r.id
\* WHERE eq.status = 'pending'
PendingJoined(q, recs) ==
  {j \in 1..Len(q) : q[j].status = "pending" /\ q[j].recording_id \in DOMAIN recs}

\* ... ORDER BY eq.created_at LIMIT 1: a row of least created_at; SQL leaves
\* the order among equal created_at open
NextJobs(q, recs) ==
  {j \in PendingJoined(q, recs) :
     \A k \in PendingJoined(q, recs) : q[j].created_at <= q[k].created_at}

\* UPDATE export_queue SET status = 'processing' WHERE id = ?
MarkProcessing(q, j) == [q EXCEPT ![j].status = "processing"]

\* UPDATE export_queue SET status = 'done', completed_at = now WHERE id = ?
MarkDone(q, j, t) == [q EXCEPT ![j].status = "done", ![j].completed_at = t]

\* (mutant: a failed job is put back for another try)
MarkFailedRetry(q, j, e) == [q EXCEPT ![j].status = "pending", ![j].error = e]

\* UPDATE export_queue SET status = 'failed', error = ? WHERE id = ?
MarkFailed(q, j, e) == [q EXCEPT ![j].status = "failed", ![j].error = e]

-----------------------------------------------------------------------------
(* Helpers on finite maps and sets *)

Put(f, k, v) == [x \in DOMAIN f \cup {k} |-> IF x = k THEN v ELSE f[x]]

Drop(f, K) == [x \in DOMAIN f \ K |-> f[x]]

RECURSIVE SumOver(_, _)
SumOver(f, S) ==
  IF S = {} THEN 0
  ELSE LET x == CHOOSE y \in S : TRUE IN f[x] + SumOver(f, S \ {x})

\* The enumerations of S in an order: Before(a, b) says a must come before b
Orderings(S, Before(_, _)) ==
  {s \in [1..Cardinality(S) -> S] :
     /\ \A i, j \in DOMAIN s : i # j => s[i] # s[j]
     /\ \A i, j \in DOMAIN s : Before(s[j], s[i]) => j < i}

-----------------------------------------------------------------------------
(* Retention: cleanup.py.  The clock counts seconds and sizes count MiB.   *)

\* time.time() - max_age_days * 86400
Cutoff(t, max_age_days) == t - max_age_days * SecondsPerDay

\* SELECT id, meta_path FROM recordings WHERE timestamp < ? (no ORDER BY)
\* (mutant: a recording stamped exactly at the cutoff is a candidate too)
AgeCandidatesInclusive(recs, cutoff) ==
  Orderings({r \in DOMAIN recs : recs[r].timestamp <= cutoff},
            LAMBDA a, b : FALSE)

AgeCandidates(recs, cutoff) ==
  Orderings({r \in DOMAIN recs : recs[r].timestamp < cutoff},
            LAMBDA a, b : FALSE)

\* SELECT id, meta_path FROM recordings ORDER BY timestamp DESC
\* LIMIT -1 OFFSET max_count
\* (mutant: ORDER BY timestamp ASC, which keeps the oldest max_count)
CountCandidatesAsc(recs, max_count) ==
  {SubSeq(s, max_count + 1, Len(s)) :
     s \in Orderings(DOMAIN recs,
                     LAMBDA a, b : recs[a].timestamp < recs[b].timestamp)}

CountCandidates(recs, max_count) ==
  {SubSeq(s, max_count + 1, Len(s)) :
     s \in Orderings(DOMAIN recs,
                     LAMBDA a, b : recs[a].timestamp > recs[b].timestamp)}

\* SELECT id, meta_path FROM recordings ORDER BY timestamp ASC
\* (mutant: ORDER BY timestamp DESC)
SizeCandidatesDesc(recs) ==
  Orderings(DOMAIN recs, LAMBDA a, b : recs[a].timestamp > recs[b].timestamp)

SizeCandidates(recs) ==
  Orderings(DOMAIN recs, LAMBDA a, b : recs[a].timestamp < recs[b].timestamp)

\* max_size_gb * 1024 * 1024 * 1024 bytes
MaxBytes(max_size_gb) == max_size_gb * MiBPerGb

\* _calculate_storage_size: every file under the recordings directory
StorageSize(fs) == SumOver(fs, DOMAIN fs)

\* (mutant: the row is deleted and no file is unlinked)
DeletedFilesNone(fs, meta_path) == {}

\* _delete_recording_files: the files it finds and unlinks, the metadata file
\* and meta.with_suffix(s) for s in .cast, .gif, .png
DeletedFiles(fs, meta_path) ==
  {p \in {meta_path} \cup {with_suffix(meta_path, s) : s \in {"cast", "gif", "png"}} :
     p \in DOMAIN fs}

\* ... and the sum of their sizes, which it returns
Freed(fs, meta_path) == SumOver(fs, DeletedFiles(fs, meta_path))

\* The (id, meta_path) rows a cursor yields, for the ids in the order s
Rows(recs, s) == [i \in DOMAIN s |-> [id |-> s[i], meta_path |-> recs[s[i]].meta_path]]

-----------------------------------------------------------------------------
(* The recorder (outside the daemon) writes a capture: the transcript, when *)
(* there is one, and then the metadata file.  watchfiles reports the new    *)
(* file as Change.added to the watch loop when one is running.  A capture   *)
(* has a fresh name: no name is used for two captures.                      *)

WorkerIdle == [pc |-> "idle", queue_id |-> 0, recording_id |-> "", cast_path |-> NULL]

WorkerOff == [WorkerIdle EXCEPT !.pc = "off"]

\* FileWatcher.__init__: no task, the stop event clear; tasks counts the
\* calls of start()
WatcherOff ==
  [pc |-> "off", events |-> {}, path |-> NULL, stop_event |-> FALSE, tasks |-> 0]

\* FileWatcher.start: a task runs _watch_loop, and awatch returns at once,
\* the loop being over, when the stop event it is given is set
WatcherStarted(w) ==
  [w EXCEPT !.pc = IF w.stop_event THEN "over" ELSE "watching", !.tasks = @ + 1]

\* FileWatcher.stop: the stop event is set and the task cancelled
WatcherStopped(w) ==
  [w EXCEPT !.pc = "off", !.events = {}, !.path = NULL, !.stop_event = TRUE]

\* StatusServer before start and after stop; conns maps a connection to its
\* handler
ServerDown == [listening |-> FALSE, conns |-> <<>>]

ServerUp == [ServerDown EXCEPT !.listening = TRUE]

Metadata(ids, atuins, stamps, casts, exit_codes) ==
  [id : ids, atuin_id : atuins, timestamp : stamps, exit_code : exit_codes,
   cwd : {Home}, cast : casts, gif : {NULL}, valid : {TRUE}]

WriteMeta(b, m, meta_size, cast_size) ==
  /\ MetaPath(b) \notin DOMAIN files
  /\ b \notin hist.captured
  /\ hist' = [hist EXCEPT !.captured = @ \cup {b},
                          !.late = IF watcher.tasks > 1 /\ watcher.pc # "off"
                                     THEN @ \cup {b} ELSE @]
  /\ Len(export_queue) + Cardinality(watcher.events)
       + (IF watcher.pc = "enqueue" THEN 1 ELSE 0) < MaxJobs
  /\ files' = IF m.cast = NULL
                THEN Put(files, MetaPath(b), meta_size)
                ELSE Put(Put(files, m.cast, cast_size), MetaPath(b), meta_size)
  /\ meta_json' = Put(meta_json, MetaPath(b), m)
  /\ watcher' = IF watcher.pc \in {"off", "over"}
                  THEN watcher
                  ELSE [watcher EXCEPT !.events = @ \cup {MetaPath(b)}]
  /\ UNCHANGED <<now, recordings, export_queue, config, svc, worker, cleaners, server>>

\* strftime('%s', 'now') and time.time() read this clock; the model looks
\* at it once a day
Tick ==
  /\ now < MaxDays * SecondsPerDay
  /\ now' = now + SecondsPerDay
  /\ UNCHANGED <<files, meta_json, recordings, export_queue, config, svc,
                 watcher, worker, cleaners, hist, server>>

-----------------------------------------------------------------------------
(* FileWatcher._watch_loop and WatcherService._handle_new_recording *)

\* One change of the set awatch yielded: index_recording reads and validates
\* the file and upserts the row.  An exception (file gone, invalid content)
\* is caught and logged by the handler and the loop goes on.
\* History: when each row now in the table was first inserted
FirstIndexed(first, recs, t) ==
  [r \in DOMAIN recs |-> IF r \in DOMAIN first THEN first[r] ELSE t]

HandleNewRecording ==
  /\ watcher.pc = "watching"
  /\ \E p \in watcher.events :
       LET readable == p \in DOMAIN meta_json /\ meta_json[p].valid
           indexed == Qualifies(p) /\ readable
       IN  /\ recordings' = IF indexed
                              THEN InsertOrReplace(recordings, meta_json[p], p, now)
                              ELSE recordings
           /\ watcher' = IF indexed /\ config.gif_enabled
                           THEN [watcher EXCEPT !.pc = "enqueue", !.events = @ \ {p},
                                                !.path = p]
                           ELSE [watcher EXCEPT !.events = @ \ {p}]
           /\ hist' = [hist EXCEPT
                        !.first_indexed = FirstIndexed(@, recordings', now),
                        !.handled = @ \cup {p},
                        !.failed = IF indexed THEN @ ELSE @ \cup {p},
                        !.run = IF indexed /\ hist.track
                                  THEN [c \in DOMAIN hist.run |->
                                          [hist.run[c] EXCEPT !.ingested =
                                             @ \/ cleaners[c].pc \notin {"off", "wait"}]]
                                  ELSE @]
  /\ UNCHANGED <<now, files, meta_json, export_queue, config, svc, worker, cleaners, server>>

\* ... if self.config.export.gif_enabled: ExportQueue.enqueue(stem id, "gif")
Enqueue ==
  /\ watcher.pc = "enqueue"
  /\ export_queue' = InsertJob(export_queue, StemId(watcher.path), "gif", now)
  /\ watcher' = [watcher EXCEPT !.pc = "watching", !.path = NULL]
  /\ UNCHANGED <<now, files, meta_json, recordings, config, svc, worker, cleaners, hist, server>>

\* index_recording raises on a file it could read: the INSERT fails (a
\* Store write error), the handler logs it and the loop goes on
IndexFails ==
  /\ watcher.pc = "watching"
  /\ \E p \in watcher.events :
       /\ Qualifies(p)
       /\ p \in DOMAIN meta_json
       /\ meta_json[p].valid
       /\ watcher' = [watcher EXCEPT !.events = @ \ {p}]
       /\ hist' = [hist EXCEPT !.handled = @ \cup {p}, !.failed = @ \cup {p}]
  /\ UNCHANGED <<now, files, meta_json, recordings, export_queue, config, svc,
                 worker, cleaners, server>>

\* ExportQueue.enqueue raises after index_recording has committed the row:
\* the handler logs it and the loop goes on
EnqueueFails ==
  /\ watcher.pc = "enqueue"
  /\ watcher' = [watcher EXCEPT !.pc = "watching", !.path = NULL]
  /\ hist' = [hist EXCEPT !.failed = @ \cup {watcher.path}]
  /\ UNCHANGED <<now, files, meta_json, recordings, export_queue, config, svc,
                 worker, cleaners, server>>

\* FileWatcher.stop() on a started watcher
WatcherStop ==
  /\ watcher.pc # "off"
  /\ watcher' = WatcherStopped(watcher)
  /\ UNCHANGED <<now, files, meta_json, recordings, export_queue, config, svc,
                 worker, cleaners, hist, server>>

\* FileWatcher.start() on the same watcher after stop()
WatcherStart ==
  /\ watcher.pc = "off"
  /\ watcher.tasks < MaxStarts
  /\ watcher' = WatcherStarted(watcher)
  /\ UNCHANGED <<now, files, meta_json, recordings, export_queue, config, svc,
                 worker, cleaners, hist, server>>

-----------------------------------------------------------------------------
(* ExportQueue._process_loop, _process_next and _generate_gif *)

\* SELECT the next pending job and UPDATE it to 'processing'.  With no row
\* the cycle returns and the loop sleeps: no change of state.
Claim ==
  /\ worker.pc = "idle"
  /\ \E j \in NextJobs(export_queue, recordings) :
       /\ export_queue' = MarkProcessing(export_queue, j)
       /\ worker' = [pc |-> "rendering",
                     queue_id |-> j,
                     recording_id |-> export_queue[j].recording_id,
                     cast_path |-> recordings[export_queue[j].recording_id].cast_path]
       /\ hist' = [hist EXCEPT !.gif_before =
                     recordings[export_queue[j].recording_id].gif_path]
  /\ UNCHANGED <<now, files, meta_json, recordings, config, svc, watcher, cleaners, server>>

\* agg exits 0: it has written the .gif beside the transcript, and
\* UPDATE recordings SET gif_path = ? WHERE id = ? is issued
RenderOk(gif_size) ==
  /\ worker.pc = "rendering"
  /\ worker.cast_path # NULL
  /\ worker.cast_path \in DOMAIN files
  /\ LET gif_path == with_suffix(worker.cast_path, "gif")
     IN  /\ files' = Put(files, gif_path, gif_size)
         /\ recordings' = SetGifPath(recordings, worker.recording_id, gif_path)
  /\ worker' = [worker EXCEPT !.pc = "rendered"]
  /\ UNCHANGED <<now, meta_json, export_queue, config, svc, watcher, cleaners, hist, server>>

\* agg exits non-zero, cannot be started, or cast_path is None (TypeError):
\* the exception is caught and the job is marked failed with str(e)
RenderFail ==
  /\ worker.pc = "rendering"
  /\ export_queue' = MarkFailed(export_queue, worker.queue_id, "agg failed")
  /\ worker' = WorkerIdle
  /\ hist' = [hist EXCEPT !.gif_before = NULL]
  /\ UNCHANGED <<now, files, meta_json, recordings, config, svc, watcher, cleaners, server>>

\* back from _generate_gif: the job is marked done
FinishJob ==
  /\ worker.pc = "rendered"
  /\ export_queue' = MarkDone(export_queue, worker.queue_id, now)
  /\ worker' = WorkerIdle
  /\ hist' = [hist EXCEPT !.gif_before = NULL]
  /\ UNCHANGED <<now, files, meta_json, recordings, config, svc, watcher, cleaners, server>>

\* (mutant: the loop ends on an exception as it does on CancelledError)
BackoffBreaks(w) == WorkerOff

\* except Exception: await asyncio.sleep(5)
Backoff(w) == [WorkerIdle EXCEPT !.pc = "backoff"]

\* A statement of _process_next raises outside the per-job try (the SELECT
\* of a cycle), or inside it together with the UPDATE to 'failed' of the
\* except clause (the Store is unavailable): the exception reaches
\* _process_loop, and a job the cycle had claimed stays as it is
WorkerFault ==
  /\ worker.pc \in {"idle", "rendered"}
  /\ worker' = Backoff(worker)
  /\ hist' = [hist EXCEPT !.gif_before = NULL]
  /\ UNCHANGED <<now, files, meta_json, recordings, export_queue, config, svc,
                 watcher, cleaners, server>>

\* the sleep is over: while not self._stop_event.is_set()
WorkerBackoff ==
  /\ worker.pc = "backoff"
  /\ worker' = WorkerIdle
  /\ UNCHANGED <<now, files, meta_json, recordings, export_queue, config, svc,
                 watcher, cleaners, hist, server>>

-----------------------------------------------------------------------------
(* CleanupScheduler._cleanup_loop and run_cleanup.  The loop iterates a    *)
(* cursor with "async for" and awaits _delete_recording_files for each row: *)
(* one row is one step.                                                     *)

CleanerOff ==
  [pc |-> "off", dry_run |-> FALSE, cands |-> <<>>,
   deleted_count |-> 0, freed_bytes |-> 0, current_size |-> 0]

CleanerWait == [CleanerOff EXCEPT !.pc = "wait"]

\* What the properties read of one run_cleanup, kept while the call runs in a
\* specification that tracks retention (hist.track): the
\* timestamps in the table and the clock when the call began, the timestamps
\* when the count pass selected, the size the size pass computed and the
\* timestamps when it selected, the deletions in order, and whether a file
\* was indexed meanwhile
Stamps(recs) == [r \in DOMAIN recs |-> recs[r].timestamp]

NoRun ==
  [begin |-> <<>>, began_at |-> 0, after_age |-> <<>>, size_initial |-> 0,
   at_size |-> <<>>,
   removed |-> <<>>, ingested |-> FALSE]

NewRun(recs, t) == [NoRun EXCEPT !.begin = Stamps(recs), !.began_at = t]

Removal(recs, listed, row, pass, before, freed) ==
  [id |-> row.id,
   pass |-> pass,
   hit |-> row.id \in DOMAIN recs,
   timestamp |-> IF row.id \in DOMAIN recs THEN recs[row.id].timestamp ELSE 0,
   older_left |-> /\ row.id \in DOMAIN recs
                  /\ \E r \in DOMAIN recs : recs[r].timestamp < recs[row.id].timestamp,
   older_listed |-> /\ row.id \in DOMAIN recs
                    /\ \E r \in DOMAIN recs \cap DOMAIN listed :
                         recs[r].timestamp < recs[row.id].timestamp,
   before |-> before,
   freed |-> freed]

\* The connection to index.db is open from initialize() to close()
StoreOpen == svc.state # "down"

\* deleted_count = 0, freed_bytes = 0, the cutoff, and the age pass's SELECT
CleanupEnter(c, dry_run) ==
  /\ cleaners[c].pc = "wait"
  /\ StoreOpen
  /\ LET cutoff == Cutoff(now, config.max_age_days)
     IN  \E s \in AgeCandidates(recordings, cutoff) :
           cleaners' = [cleaners EXCEPT ![c] =
                          [CleanerOff EXCEPT !.pc = "age", !.dry_run = dry_run,
                                             !.cands = Rows(recordings, s)]]
  /\ hist' = IF hist.track THEN [hist EXCEPT !.run[c] = NewRun(recordings, now)] ELSE hist
  /\ UNCHANGED <<now, files, meta_json, recordings, export_queue, config, svc,
                 watcher, worker>>

\* the timer loop calls run_cleanup()
CleanupBegin(c, dry_run) == CleanupEnter(c, dry_run) /\ UNCHANGED server

\* One row of a pass that deletes whatever dry_run says
DeleteStepAnyway(c, pass) ==
  LET cl == cleaners[c]
      row == Head(cl.cands)
      gone == DeletedFiles(files, row.meta_path)
      freed == Freed(files, row.meta_path)
  IN  /\ cl.pc = pass
      /\ cl.cands # <<>>
      /\ StoreOpen
      /\ files' = Drop(files, gone)
      /\ meta_json' = Drop(meta_json, gone)
      /\ recordings' = DeleteRow(recordings, row.id)
      /\ cleaners' = [cleaners EXCEPT ![c] =
                        [cl EXCEPT !.cands = Tail(cl.cands),
                                   !.deleted_count = @ + 1,
                                   !.freed_bytes = @ + freed,
                                   !.current_size = IF pass = "size" THEN @ - freed ELSE @]]
      /\ hist' = [hist EXCEPT !.first_indexed = FirstIndexed(@, recordings', now)]
      /\ UNCHANGED <<now, export_queue, config, svc, watcher, worker, server>>

\* One row of a pass: unless dry_run, _delete_recording_files unlinks the
\* files it finds and deletes the row; the row is counted either way
DeleteStep(c, pass) ==
  LET cl == cleaners[c]
      row == Head(cl.cands)
      gone == IF cl.dry_run THEN {} ELSE DeletedFiles(files, row.meta_path)
      freed == IF cl.dry_run THEN 0 ELSE Freed(files, row.meta_path)
  IN  /\ cl.pc = pass
      /\ cl.cands # <<>>
      /\ cl.dry_run \/ StoreOpen
      /\ files' = Drop(files, gone)
      /\ meta_json' = Drop(meta_json, gone)
      /\ recordings' = IF cl.dry_run THEN recordings ELSE DeleteRow(recordings, row.id)
      /\ cleaners' = [cleaners EXCEPT ![c] =
                        [cl EXCEPT !.cands = Tail(cl.cands),
                                   !.deleted_count = @ + 1,
                                   !.freed_bytes = @ + freed,
                                   !.current_size = IF pass = "size" THEN @ - freed ELSE @]]
      /\ hist' = [hist EXCEPT
                   !.first_indexed = FirstIndexed(@, recordings', now),
                   !.run[c].removed =
                      IF cl.dry_run \/ ~hist.track THEN @
                      ELSE Append(@, Removal(recordings, hist.run[c].at_size, row,
                                             pass, cl.current_size, freed))]
      /\ UNCHANGED <<now, export_queue, config, svc, watcher, worker, server>>

AgeStep(c) == DeleteStep(c, "age")

\* the age cursor is exhausted: the count pass's SELECT
CountSelect(c) ==
  /\ cleaners[c].pc = "age"
  /\ cleaners[c].cands = <<>>
  /\ StoreOpen
  /\ \E s \in CountCandidates(recordings, config.max_count) :
       cleaners' = [cleaners EXCEPT ![c].pc = "count", ![c].cands = Rows(recordings, s)]
  /\ hist' = IF hist.track THEN [hist EXCEPT !.run[c].after_age = Stamps(recordings)]
                           ELSE hist
  /\ UNCHANGED <<now, files, meta_json, recordings, export_queue, config, svc,
                 watcher, worker, server>>

CountStep(c) == DeleteStep(c, "count")

\* the count cursor is exhausted: the size of the tree, and the size pass's
\* SELECT when it is over the budget
SizeSelect(c) ==
  /\ cleaners[c].pc = "count"
  /\ cleaners[c].cands = <<>>
  /\ LET current_size == StorageSize(files)
     IN  /\ StoreOpen \/ current_size <= MaxBytes(config.max_size_gb)
         /\ \E s \in SizeCandidates(recordings) :
               cleaners' = [cleaners EXCEPT
                              ![c].pc = "size",
                              ![c].current_size = current_size,
                              ![c].cands = IF current_size > MaxBytes(config.max_size_gb)
                                             THEN Rows(recordings, s) ELSE <<>>]
         /\ hist' = IF hist.track
                      THEN [hist EXCEPT !.run[c].size_initial = current_size,
                                        !.run[c].at_size = Stamps(recordings)]
                      ELSE hist
  /\ UNCHANGED <<now, files, meta_json, recordings, export_queue, config, svc,
                 watcher, worker, server>>

\* if current_size <= max_bytes: break
SizeStep(c) ==
  /\ cleaners[c].current_size > MaxBytes(config.max_size_gb)
  /\ DeleteStep(c, "size")

\* return {"deleted_count": ..., "freed_bytes": ...}
CleanupEnd(c) ==
  /\ cleaners[c].pc = "size"
  /\ \/ cleaners[c].cands = <<>>
     \/ cleaners[c].current_size <= MaxBytes(config.max_size_gb)
  /\ cleaners' = [cleaners EXCEPT ![c] = CleanerWait]
  /\ hist' = [hist EXCEPT !.run[c] = NoRun]
  /\ UNCHANGED <<now, files, meta_json, recordings, export_queue, config, svc,
                 watcher, worker>>

\* ... to the timer loop, which sleeps
CleanupReturn(c) == CleanupEnd(c) /\ UNCHANGED server

\* A statement of run_cleanup raises in the timer loop:
\* except Exception: await asyncio.sleep(3600)
CleanupFault(c) ==
  /\ cleaners[c].pc \in {"age", "count", "size"}
  /\ cleaners' = [cleaners EXCEPT ![c] = [CleanerOff EXCEPT !.pc = "backoff"]]
  /\ hist' = [hist EXCEPT !.run[c] = NoRun]
  /\ UNCHANGED <<now, files, meta_json, recordings, export_queue, config, svc,
                 watcher, worker, server>>

\* the hour is over: while not self._stop_event.is_set()
CleanupBackoff(c) ==
  /\ cleaners[c].pc = "backoff"
  /\ cleaners' = [cleaners EXCEPT ![c] = CleanerWait]
  /\ UNCHANGED <<now, files, meta_json, recordings, export_queue, config, svc,
                 watcher, worker, hist, server>>

\* The paths _delete_recording_files tries, in its order
UnlinkOrder(meta_path) ==
  <<meta_path>> \o [i \in 1..3 |-> with_suffix(meta_path, <<"cast", "gif", "png">>[i])]

\* _delete_recording_files is interrupted in the timer's run: stat or unlink
\* raises at the k-th path (an OSError), or delete_recording raises after
\* all four (k = 5).  The files ahead of k are removed, the row is still in
\* the Store, and _cleanup_loop's except Exception starts its sleep
DeleteInterrupted(c) ==
  LET cl == cleaners[c]
      row == Head(cl.cands)
  IN  /\ cl.pc \in {"age", "count", "size"}
      /\ cl.cands # <<>>
      /\ ~cl.dry_run
      /\ \E k \in 2..5 :
           LET gone == {UnlinkOrder(row.meta_path)[i] : i \in 1..(k - 1)} \cap DOMAIN files
           IN  /\ IF k = 5 THEN StoreOpen
                           ELSE UnlinkOrder(row.meta_path)[k] \in DOMAIN files
               /\ files' = Drop(files, gone)
               /\ meta_json' = Drop(meta_json, gone)
      /\ cleaners' = [cleaners EXCEPT ![c] = [CleanerOff EXCEPT !.pc = "backoff"]]
      /\ hist' = [hist EXCEPT !.run[c] = NoRun]
      /\ UNCHANGED <<now, recordings, export_queue, config, svc, watcher, worker, server>>

-----------------------------------------------------------------------------
(* StatusServer: server.py.  asyncio.start_unix_server runs _handle_client  *)
(* as a task of its own for every connection it accepts.                    *)

ConnName == <<"c1", "c2", "c3", "c4">>

ConnIds == {ConnName[i] : i \in 1..MaxConns}

ConnIndex(c) == CHOOSE i \in 1..Len(ConnName) : ConnName[i] = c

\* What a client sends on its line: json is what json.loads makes of it, an
\* object, a value of another type, or a decoding error; action, dry_run and
\* id are the fields of the object (each with the default the code reads)
Line(json, action, dry_run, id) ==
  [json |-> json, action |-> action, dry_run |-> dry_run, id |-> id,
   limit |-> 50, offset |-> 0, failed_only |-> FALSE, cwd |-> NULL]

\* {"action": "list", "limit": ..., "offset": ..., "failed_only": ..., "cwd": ...}
ListLine(limit, offset, failed_only, cwd) ==
  [Line("object", "list", FALSE, "") EXCEPT
     !.limit = limit, !.offset = offset, !.failed_only = failed_only, !.cwd = cwd]

NoLine == Line("", "", FALSE, "")

Lines(ids) ==
  {Line("object", a, FALSE, "") : a \in {"status", "list", "bogus"}}
    \cup {Line("object", "get", FALSE, id) : id \in ids}
    \cup {Line("object", "cleanup", d, "") : d \in BOOLEAN}
    \cup {Line("array", "", FALSE, ""), Line("invalid", "", FALSE, "")}

\* The object json.dumps writes on one line
Reply ==
  [kind |-> "", text |-> <<>>, total_count |-> 0, failed_count |-> 0,
   deleted_count |-> 0, freed_bytes |-> 0, recordings |-> <<>>]

\* {"error": str(e)} and {"error": f"Unknown action: {action}"}
ErrorReply(text) == [Reply EXCEPT !.kind = "error", !.text = text]

\* {"status": "running", "stats": stats}
StatusReply(total_count, failed_count) ==
  [Reply EXCEPT !.kind = "status", !.total_count = total_count,
                !.failed_count = failed_count]

\* {"recordings": [...]}, and {"recording": ...} with zero or one row
RecordingsReply(kind, ids) == [Reply EXCEPT !.kind = kind, !.recordings = ids]

\* {"deleted_count": deleted_count, "freed_bytes": freed_bytes}
CleanupReply(deleted_count, freed_bytes) ==
  [Reply EXCEPT !.kind = "cleanup", !.deleted_count = deleted_count,
                !.freed_bytes = freed_bytes]

\* A handler awaiting reader.readline()
ConnOpen == [pc |-> "open", line |-> NoLine, total_count |-> 0, out |-> <<>>]

\* A handler that closes the connection without a response
CloseUnanswered(conn, reply) == [conn EXCEPT !.pc = "closed"]

\* writer.write(line); drain; finally writer.close()
Answer(conn, reply) == [conn EXCEPT !.pc = "closed", !.out = Append(@, reply)]

\* SELECT COUNT(*) FROM recordings
TotalCount(recs) == Cardinality(DOMAIN recs)

\* SELECT COUNT(*) FROM recordings WHERE exit_code != 0
FailedCount(recs) == Cardinality({r \in DOMAIN recs : recs[r].exit_code # 0})

\* SQLite's LIKE compares ASCII letters without regard to case
Lower(ch) == IF ch = "A" THEN "a" ELSE ch

\* x LIKE pat in SQLite: % matches any run of characters, _ any one
\* character, another character itself in either case
RECURSIVE Like(_, _)
Like(x, pat) ==
  IF pat = <<>> THEN x = <<>>
  ELSE IF Head(pat) = "%"
    THEN \E k \in 0..Len(x) : Like(SubSeq(x, k + 1, Len(x)), Tail(pat))
  ELSE /\ x # <<>>
       /\ Head(pat) = "_" \/ Lower(Head(pat)) = Lower(Head(x))
       /\ Like(Tail(x), Tail(pat))

\* WHERE 1=1 [AND exit_code != 0] [AND cwd LIKE f"{cwd}%"]; "if cwd:" skips
\* the filter for None and for the empty string
ListFilter(recs, failed_only, cwd) ==
  {r \in DOMAIN recs :
     /\ failed_only => recs[r].exit_code # 0
     /\ cwd # NULL => Like(recs[r].cwd, cwd \o <<"%">>)}

\* LIMIT ? OFFSET ? in SQLite: a negative LIMIT is no limit, a negative
\* OFFSET is 0
Page(rows, limit, offset) ==
  LET first == IF offset < 0 THEN 1 ELSE offset + 1
      last == IF limit < 0 \/ first + limit - 1 > Len(rows)
                THEN Len(rows) ELSE first + limit - 1
  IN  SubSeq(rows, first, last)

\* Indexer.list_recordings: SELECT * FROM recordings WHERE ...
\* ORDER BY timestamp DESC LIMIT ? OFFSET ?; SQL leaves the order among
\* equal timestamps open
list_recordings(recs, limit, offset, failed_only, cwd) ==
  LET found == ListFilter(recs, failed_only, cwd)
  IN  {Page(rows, limit, offset) :
         rows \in Orderings(found,
                            LAMBDA a, b : recs[a].timestamp > recs[b].timestamp)}

\* SELECT * FROM recordings WHERE atuin_id = ?
ByAtuinId(recs, id) == {r \in DOMAIN recs : recs[r].atuin_id = <<id>>}

\* The statement of an operation on a closed connection raises
StoreClosed == ErrorReply(<<"Connection closed">>)

\* The server accepts a connection
Connect ==
  /\ server.listening
  /\ Cardinality(DOMAIN server.conns) < MaxConns
  /\ LET c == ConnName[Cardinality(DOMAIN server.conns) + 1]
     IN  server' = [server EXCEPT !.conns = Put(@, c, ConnOpen)]
  /\ UNCHANGED <<now, files, meta_json, recordings, export_queue, config, svc,
                 watcher, worker, cleaners, hist>>

\* The client's line arrives
Send(c, line) ==
  /\ c \in DOMAIN server.conns
  /\ server.conns[c].pc = "open"
  /\ server' = [server EXCEPT !.conns[c].pc = "received", !.conns[c].line = line]
  /\ UNCHANGED <<now, files, meta_json, recordings, export_queue, config, svc,
                 watcher, worker, cleaners, hist>>

\* The client closes its end without a line: readline returns b""
Hangup(c) == Send(c, Line("eof", "", FALSE, ""))

\* The connections made before c are answered
InTurn(c) ==
  \A d \in DOMAIN server.conns :
    ConnIndex(d) < ConnIndex(c) => server.conns[d].pc = "closed"

\* A server that handles one connection after the other
ReadyInTurn(c) ==
  /\ c \in DOMAIN server.conns
  /\ server.conns[c].pc = "received"
  /\ InTurn(c)

\* readline has returned in the handler of c, a task of its own
Ready(c) ==
  /\ c \in DOMAIN server.conns
  /\ server.conns[c].pc = "received"

\* _handle_client from readline to the first await on the Store, or to the
\* end when the request needs none: a line that does not decode and a value
\* without .get raise into "except Exception"
HandleRequest(c) ==
  /\ Ready(c)
  /\ LET conn == server.conns[c]
         line == conn.line
         known == line.json = "object"
                    /\ line.action \in {"status", "list", "get", "cleanup"}
     IN  /\ line.action # "cleanup" \/ line.json # "object"
         /\ \E listed \in list_recordings(recordings, line.limit, line.offset,
                                          line.failed_only, line.cwd) :
            server' =
              [server EXCEPT !.conns[c] =
                 IF line.json \in {"invalid", "eof"}
                   THEN Answer(conn, ErrorReply(<<"Expecting value">>))
                 ELSE IF line.json # "object"
                   THEN Answer(conn, ErrorReply(<<"object has no attribute 'get'">>))
                 ELSE IF ~known
                   THEN Answer(conn, ErrorReply(<<"Unknown action: ", line.action>>))
                 ELSE IF ~StoreOpen
                   THEN Answer(conn, StoreClosed)
                 ELSE IF line.action = "status"
                   THEN [conn EXCEPT !.pc = "stats",
                                     !.total_count = TotalCount(recordings)]
                 ELSE IF line.action = "list"
                   THEN Answer(conn, RecordingsReply("list", listed))
                 ELSE IF line.id \in DOMAIN recordings
                   THEN Answer(conn, RecordingsReply("get", <<line.id>>))
                 ELSE [conn EXCEPT !.pc = "get"]]
  /\ UNCHANGED <<now, files, meta_json, recordings, export_queue, config, svc,
                 watcher, worker, cleaners, hist>>

\* get_stats, second statement, and the response
StatsSecond(c) ==
  /\ c \in DOMAIN server.conns
  /\ server.conns[c].pc = "stats"
  /\ server' =
       [server EXCEPT !.conns[c] =
          IF StoreOpen
            THEN Answer(@, StatusReply(@.total_count, FailedCount(recordings)))
            ELSE Answer(@, StoreClosed)]
  /\ UNCHANGED <<now, files, meta_json, recordings, export_queue, config, svc,
                 watcher, worker, cleaners, hist>>

\* get_by_id found nothing: get_by_atuin_id, and the response
GetSecond(c) ==
  /\ c \in DOMAIN server.conns
  /\ server.conns[c].pc = "get"
  /\ LET found == ByAtuinId(recordings, server.conns[c].line.id)
     IN  server' =
           [server EXCEPT !.conns[c] =
              IF ~StoreOpen THEN Answer(@, StoreClosed)
              ELSE IF found = {} THEN Answer(@, RecordingsReply("get", <<>>))
              ELSE Answer(@, RecordingsReply("get", <<CHOOSE r \in found : TRUE>>))]
  /\ UNCHANGED <<now, files, meta_json, recordings, export_queue, config, svc,
                 watcher, worker, cleaners, hist>>

\* action "cleanup": a CleanupScheduler of the connection's own runs
\* run_cleanup(dry_run) in the handler
HandleCleanup(c) ==
  /\ Ready(c)
  /\ server.conns[c].line.json = "object"
  /\ server.conns[c].line.action = "cleanup"
  /\ IF StoreOpen
       THEN /\ CleanupEnter(c, server.conns[c].line.dry_run)
            /\ server' = [server EXCEPT !.conns[c].pc = "cleanup"]
       ELSE /\ server' = [server EXCEPT !.conns[c] = Answer(@, StoreClosed)]
            /\ UNCHANGED <<now, files, meta_json, recordings, export_queue,
                           config, svc, watcher, worker, cleaners, hist>>

\* run_cleanup returns its totals, which are the response
HandleCleanupEnd(c) ==
  /\ c \in DOMAIN server.conns
  /\ server.conns[c].pc = "cleanup"
  /\ CleanupEnd(c)
  /\ server' = [server EXCEPT !.conns[c] =
                  Answer(@, CleanupReply(cleaners[c].deleted_count,
                                         cleaners[c].freed_bytes))]

\* run_cleanup on a closed Store: the next statement raises.  Before a
\* DELETE, _delete_recording_files has unlinked the files of the row.
HandleCleanupClosed(c) ==
  LET cl == cleaners[c]
      deleting == /\ cl.cands # <<>>
                  /\ ~cl.dry_run
                  /\ cl.pc = "size" => cl.current_size > MaxBytes(config.max_size_gb)
      selecting == /\ cl.cands = <<>>
                   /\ \/ cl.pc = "age"
                      \/ /\ cl.pc = "count"
                         /\ StorageSize(files) > MaxBytes(config.max_size_gb)
      gone == IF deleting THEN DeletedFiles(files, Head(cl.cands).meta_path) ELSE {}
  IN  /\ c \in DOMAIN server.conns
      /\ server.conns[c].pc = "cleanup"
      /\ ~StoreOpen
      /\ deleting \/ selecting
      /\ files' = Drop(files, gone)
      /\ meta_json' = Drop(meta_json, gone)
      /\ cleaners' = [cleaners EXCEPT ![c] = CleanerWait]
      /\ hist' = [hist EXCEPT !.run[c] = NoRun]
      /\ server' = [server EXCEPT !.conns[c] = Answer(@, StoreClosed)]
      /\ UNCHANGED <<now, recordings, export_queue, config, svc, watcher, worker>>

-----------------------------------------------------------------------------
(* WatcherService.start, stop; a later start is a new process on the same   *)
(* index.db                                                                 *)

Start ==
  /\ svc.state = "down"
  /\ svc.starts < MaxStarts
  /\ svc' = [state |-> "up", starts |-> svc.starts + 1]
  /\ watcher' = WatcherStarted(WatcherOff)
  /\ worker' = WorkerIdle
  /\ cleaners' = [c \in DOMAIN cleaners |-> CleanerWait]
  /\ server' = ServerUp
  /\ UNCHANGED <<now, files, meta_json, recordings, export_queue, config, hist>>

\* await self.server.stop(): the socket stops listening.  The handlers of
\* the open connections are not cancelled; Server.wait_closed() returns at
\* once before Python 3.12 and waits for the open connections to close from
\* 3.12 on, and the code runs on either
StopServer ==
  /\ svc.state = "up"
  /\ \E waits \in BOOLEAN :
       waits => \A c \in DOMAIN server.conns : server.conns[c].pc = "closed"
  /\ svc' = [svc EXCEPT !.state = "stop_cleanup"]
  /\ server' = [server EXCEPT !.listening = FALSE]
  /\ UNCHANGED <<now, files, meta_json, recordings, export_queue, config,
                 watcher, worker, cleaners, hist>>

\* await self.cleanup.stop(): the stop event is set and the task cancelled
StopCleanup ==
  /\ svc.state = "stop_cleanup"
  /\ svc' = [svc EXCEPT !.state = "stop_exporter"]
  /\ cleaners' = [cleaners EXCEPT !["timer"] = CleanerOff]
  /\ hist' = [hist EXCEPT !.run["timer"] = NoRun]
  /\ UNCHANGED <<now, files, meta_json, recordings, export_queue, config,
                 watcher, worker, server>>

\* await self.exporter.stop(): the stop event is set and the task cancelled
StopExporter ==
  /\ svc.state = "stop_exporter"
  /\ svc' = [svc EXCEPT !.state = "stop_watcher"]
  /\ worker' = WorkerOff
  /\ hist' = [hist EXCEPT !.gif_before = NULL]
  /\ UNCHANGED <<now, files, meta_json, recordings, export_queue, config,
                 watcher, cleaners, server>>

\* await self.file_watcher.stop()
StopWatcher ==
  /\ svc.state = "stop_watcher"
  /\ svc' = [svc EXCEPT !.state = "close"]
  /\ watcher' = WatcherStopped(watcher)
  /\ UNCHANGED <<now, files, meta_json, recordings, export_queue, config,
                 worker, cleaners, hist, server>>

\* await self.indexer.close()
Close ==
  /\ svc.state = "close"
  /\ svc' = [svc EXCEPT !.state = "down"]
  /\ UNCHANGED <<now, files, meta_json, recordings, export_queue, config,
                 watcher, worker, cleaners, hist, server>>

-----------------------------------------------------------------------------
(* The daemon from its first start on an empty storage directory: captures *)
(* arrive, are indexed and exported, retention runs on its timer, and the  *)
(* service is stopped and started again.                                    *)

TimerOnly == {"timer"}

NoHistory(C, track) ==
  [captured |-> {}, gif_before |-> NULL, first_indexed |-> <<>>, track |-> track,
   late |-> {}, handled |-> {}, failed |-> {},
   run |-> [c \in C |-> NoRun]]

Init ==
  /\ now = SecondsPerDay
  /\ files = <<>>
  /\ meta_json = <<>>
  /\ recordings = <<>>
  /\ export_queue = <<>>
  /\ config = [gif_enabled |-> TRUE, max_age_days |-> 1, max_count |-> 1,
               max_size_gb |-> 1]
  /\ svc = [state |-> "down", starts |-> 0]
  /\ watcher = WatcherOff
  /\ worker = WorkerOff
  /\ cleaners = [c \in TimerOnly |-> CleanerOff]
  /\ server = ServerDown
  /\ hist = NoHistory(TimerOnly, FALSE)

\* The recorder stamps a capture with the time it is taken
Capture ==
  \E b \in RecIds :
    \E m \in Metadata({b}, {NULL}, {now}, {CastPath(b)}, {0}) :
      WriteMeta(b, m, 1, MiBPerGb \div 2)

Next ==
  \/ Capture
  \/ Tick
  \/ HandleNewRecording
  \/ Enqueue
  \/ Claim
  \/ RenderOk(1)
  \/ RenderFail
  \/ FinishJob
  \/ CleanupBegin("timer", FALSE)
  \/ AgeStep("timer")
  \/ CountSelect("timer")
  \/ CountStep("timer")
  \/ SizeSelect("timer")
  \/ SizeStep("timer")
  \/ CleanupReturn("timer")
  \/ Start
  \/ StopServer
  \/ StopCleanup
  \/ StopExporter
  \/ StopWatcher
  \/ Close

Spec == Init /\ [][Next]_vars

(* The service while it stays up: the same tasks without WatcherService.stop.
   The event loop resumes every task that is ready, so a step of the export
   worker that stays possible is eventually taken, and the external renderer
   returns, with one exit status or the other. *)
Running ==
  \/ Capture
  \/ Tick
  \/ HandleNewRecording
  \/ Enqueue
  \/ Claim
  \/ RenderOk(1)
  \/ RenderFail
  \/ FinishJob
  \/ CleanupBegin("timer", FALSE)
  \/ AgeStep("timer")
  \/ CountSelect("timer")
  \/ CountStep("timer")
  \/ SizeSelect("timer")
  \/ SizeStep("timer")
  \/ CleanupReturn("timer")
  \/ Start

WorkerRuns ==
  /\ WF_vars(Claim)
  /\ WF_vars(RenderOk(1) \/ RenderFail)
  /\ WF_vars(FinishJob)

LiveSpec == Init /\ [][Running]_vars /\ WorkerRuns

-----------------------------------------------------------------------------
(* Indexing alone: the service is up on an empty index.  Captures may carry *)
(* an external-history identifier, and the recorder may write the metadata  *)
(* file of a capture again, which watchfiles reports as Change.added for    *)
(* the same path.                                                           *)

\* An external-history identifier is a one-element tuple, so that it compares
\* with None
AtuinIds == {<<"h1">>}

CaptureLinked ==
  \E b \in RecIds :
    \E m \in Metadata({b}, {NULL} \cup AtuinIds, {now}, {CastPath(b)}, {0}) :
      WriteMeta(b, m, 1, MiBPerGb \div 2)

Rewrite ==
  /\ watcher.pc \notin {"off", "over"}
  /\ \E b \in RecIds :
       /\ MetaPath(b) \in DOMAIN files
       /\ MetaPath(b) \notin watcher.events
       /\ watcher' = [watcher EXCEPT !.events = @ \cup {MetaPath(b)}]
  /\ Len(export_queue) + Cardinality(watcher.events)
       + (IF watcher.pc = "enqueue" THEN 1 ELSE 0) < MaxJobs
  /\ UNCHANGED <<now, files, meta_json, recordings, export_queue, config, svc,
                 worker, cleaners, hist, server>>

IndexInit ==
  /\ now = SecondsPerDay
  /\ files = <<>>
  /\ meta_json = <<>>
  /\ recordings = <<>>
  /\ export_queue = <<>>
  /\ config = [gif_enabled |-> TRUE, max_age_days |-> 1, max_count |-> 1,
               max_size_gb |-> 1]
  /\ svc = [state |-> "up", starts |-> 1]
  /\ watcher = WatcherStarted(WatcherOff)
  /\ worker = WorkerIdle
  /\ cleaners = [c \in TimerOnly |-> CleanerWait]
  /\ server = ServerUp
  /\ hist = NoHistory(TimerOnly, FALSE)

IndexNext ==
  \/ CaptureLinked
  \/ Rewrite
  \/ Tick
  \/ HandleNewRecording
  \/ Enqueue
  \/ Claim
  \/ RenderOk(1)
  \/ RenderFail
  \/ FinishJob
  \/ CleanupBegin("timer", FALSE)
  \/ AgeStep("timer")
  \/ CountSelect("timer")
  \/ CountStep("timer")
  \/ SizeSelect("timer")
  \/ SizeStep("timer")
  \/ CleanupReturn("timer")

SpecIndex == IndexInit /\ [][IndexNext]_vars

-----------------------------------------------------------------------------
(* Retention alone: the service is up with export disabled (the default) on *)
(* a store that holds some indexed recordings, and the timer runs           *)
(* run_cleanup while one more capture, of a session that began at some      *)
(* earlier time, is written and indexed.                                    *)

StoredIds == {RecName[i] : i \in 1..MaxStored}

LateId == RecName[MaxStored + 1]

Days == {d * SecondsPerDay : d \in 0..MaxDays}

CastSizes == {MiBPerGb \div 2, MiBPerGb \div 2 - 1}

StoredMeta(r, t) ==
  [id |-> r, atuin_id |-> NULL, timestamp |-> t, exit_code |-> 0, cwd |-> Home,
   cast |-> CastPath(r), gif |-> NULL, valid |-> TRUE]

CleanupInit ==
  /\ now = MaxDays * SecondsPerDay
  /\ \E S \in SUBSET StoredIds :
       \E ts \in [S -> Days] :
         \E cs \in [S -> CastSizes] :
           /\ meta_json = [p \in {MetaPath(r) : r \in S} |-> StoredMeta(p[1], ts[p[1]])]
           /\ files = [p \in {MetaPath(r) : r \in S} \cup {CastPath(r) : r \in S} |->
                         IF p \in {MetaPath(r) : r \in S} THEN 1 ELSE cs[p[1]]]
           /\ recordings =
                [r \in S |->
                   InsertOrReplace(<<>>, StoredMeta(r, ts[r]), MetaPath(r), ts[r])[r]]
           /\ hist = [NoHistory(TimerOnly, TRUE) EXCEPT
                        !.captured = S,
                        !.first_indexed = ts]
  /\ export_queue = <<>>
  /\ \E a \in 1..MaxDays :
       \E n \in 1..MaxStored :
         config = [gif_enabled |-> FALSE, max_age_days |-> a, max_count |-> n,
                   max_size_gb |-> 1]
  /\ svc = [state |-> "up", starts |-> 1]
  /\ watcher = WatcherStarted(WatcherOff)
  /\ worker = WorkerIdle
  /\ cleaners = [c \in TimerOnly |-> CleanerWait]
  /\ server = ServerUp

LateCapture ==
  \E m \in Metadata({LateId}, {NULL}, Days, {CastPath(LateId)}, {0}) :
    WriteMeta(LateId, m, 1, MiBPerGb \div 2)

CleanupNext ==
  \/ LateCapture
  \/ HandleNewRecording
  \/ CleanupBegin("timer", FALSE)
  \/ AgeStep("timer")
  \/ CountSelect("timer")
  \/ CountStep("timer")
  \/ SizeSelect("timer")
  \/ SizeStep("timer")
  \/ CleanupReturn("timer")

SpecCleanup == CleanupInit /\ [][CleanupNext]_vars

-----------------------------------------------------------------------------
(* Cleanup over IPC: the service is up on a store that holds some indexed  *)
(* recordings, and a command-line client asks for cleanup, with dry_run or *)
(* without, one request after the other: it reads the response to one      *)
(* request before it sends the next.                                       *)

Callers == TimerOnly \cup ConnIds

DryRunInit ==
  /\ now = MaxDays * SecondsPerDay
  /\ \E S \in SUBSET StoredIds :
       \E ts \in [S -> Days] :
         \E cs \in [S -> CastSizes] :
           /\ meta_json = [p \in {MetaPath(r) : r \in S} |-> StoredMeta(p[1], ts[p[1]])]
           /\ files = [p \in {MetaPath(r) : r \in S} \cup {CastPath(r) : r \in S} |->
                         IF p \in {MetaPath(r) : r \in S} THEN 1 ELSE cs[p[1]]]
           /\ recordings =
                [r \in S |->
                   InsertOrReplace(<<>>, StoredMeta(r, ts[r]), MetaPath(r), ts[r])[r]]
           /\ hist = [NoHistory(Callers, FALSE) EXCEPT
                        !.captured = S,
                        !.first_indexed = ts]
  /\ export_queue = <<>>
  /\ \E a \in 1..MaxDays :
       \E n \in 1..MaxStored :
         config = [gif_enabled |-> FALSE, max_age_days |-> a, max_count |-> n,
                   max_size_gb |-> 1]
  /\ svc = [state |-> "up", starts |-> 1]
  /\ watcher = WatcherStarted(WatcherOff)
  /\ worker = WorkerIdle
  /\ cleaners = [c \in Callers |-> CleanerWait]
  /\ server = ServerUp

SendCleanup ==
  \E c \in ConnIds :
    \E dry_run \in BOOLEAN :
      /\ InTurn(c)
      /\ Send(c, Line("object", "cleanup", dry_run, ""))

DryRunNext ==
  \/ Connect
  \/ SendCleanup
  \/ \E c \in ConnIds : HandleCleanup(c)
  \/ \E c \in ConnIds : AgeStep(c)
  \/ \E c \in ConnIds : CountSelect(c)
  \/ \E c \in ConnIds : CountStep(c)
  \/ \E c \in ConnIds : SizeSelect(c)
  \/ \E c \in ConnIds : SizeStep(c)
  \/ \E c \in ConnIds : HandleCleanupEnd(c)

SpecDryRun == DryRunInit /\ [][DryRunNext]_vars

-----------------------------------------------------------------------------
(* The IPC server beside ingestion: the service is up on an empty index    *)
(* with export disabled (the default); captures, of commands that succeeded *)
(* or failed, are indexed while clients connect and send whatever they send *)
(* or nothing at all, cleanup requests included.                            *)

\* What a get request may name: a recording id or an external-history id
GetIds == RecIds \cup {a[1] : a \in AtuinIds}

IpcInit ==
  /\ now = 2 * SecondsPerDay
  /\ files = <<>>
  /\ meta_json = <<>>
  /\ recordings = <<>>
  /\ export_queue = <<>>
  /\ config = [gif_enabled |-> FALSE, max_age_days |-> 1, max_count |-> 1,
               max_size_gb |-> 1]
  /\ svc = [state |-> "up", starts |-> 1]
  /\ watcher = WatcherStarted(WatcherOff)
  /\ worker = WorkerIdle
  /\ cleaners = [c \in Callers |-> CleanerWait]
  /\ server = ServerUp
  /\ hist = NoHistory(Callers, FALSE)

\* A capture of a session that began now or two days ago, whose command
\* exited with 0 or with 1; the first one is linked to the shell history
IpcCapture ==
  \E b \in RecIds :
    \E m \in Metadata({b}, IF b = RecName[1] THEN AtuinIds ELSE {NULL}, {0, now},
                       {CastPath(b)}, {0, 1}) :
      WriteMeta(b, m, 1, MiBPerGb \div 2)

IpcNext ==
  \/ IpcCapture
  \/ HandleNewRecording
  \/ Connect
  \/ \E c \in ConnIds : \E line \in Lines(GetIds) : Send(c, line)
  \/ \E c \in ConnIds : Hangup(c)
  \/ \E c \in ConnIds : HandleRequest(c)
  \/ \E c \in ConnIds : StatsSecond(c)
  \/ \E c \in ConnIds : GetSecond(c)
  \/ \E c \in ConnIds : HandleCleanup(c)
  \/ \E c \in ConnIds : HandleCleanupEnd(c)
  \/ \E c \in ConnIds : AgeStep(c)
  \/ \E c \in ConnIds : CountSelect(c)
  \/ \E c \in ConnIds : CountStep(c)
  \/ \E c \in ConnIds : SizeSelect(c)
  \/ \E c \in ConnIds : SizeStep(c)

SpecIpc == IpcInit /\ [][IpcNext]_vars

(* The event loop resumes every task that is ready and the Store's thread
   runs every statement queued on it, so a step of a handler that stays
   possible is eventually taken.  Nothing makes a client send its line. *)
HandlerStep(c) ==
  \/ HandleRequest(c)
  \/ StatsSecond(c)
  \/ GetSecond(c)
  \/ HandleCleanup(c)
  \/ AgeStep(c)
  \/ CountSelect(c)
  \/ CountStep(c)
  \/ SizeSelect(c)
  \/ SizeStep(c)
  \/ HandleCleanupEnd(c)

HandlersRun == \A c \in ConnIds : WF_vars(HandlerStep(c))

IpcLive == IpcInit /\ [][IpcNext]_vars /\ HandlersRun

-----------------------------------------------------------------------------
(* Shutdown: the service is up with export disabled; captures are indexed,  *)
(* the timer and clients' requests run, and SIGTERM makes run() call        *)
(* stop(), after which the process ends.                                    *)

StopCapture ==
  \E b \in RecIds :
    \E m \in Metadata({b}, {NULL}, {0}, {CastPath(b)}, {0}) :
      WriteMeta(b, m, 1, MiBPerGb \div 2)

StopLines ==
  {Line("object", "status", FALSE, ""), Line("object", "cleanup", FALSE, "")}
    \cup {Line("object", "get", FALSE, id) : id \in RecIds}

StopNext ==
  \/ StopCapture
  \/ HandleNewRecording
  \/ Connect
  \/ \E c \in ConnIds : \E line \in StopLines : Send(c, line)
  \/ \E c \in ConnIds : HandleRequest(c)
  \/ \E c \in ConnIds : StatsSecond(c)
  \/ \E c \in ConnIds : GetSecond(c)
  \/ \E c \in ConnIds : HandleCleanup(c)
  \/ \E c \in ConnIds : HandleCleanupEnd(c)
  \/ \E c \in ConnIds : HandleCleanupClosed(c)
  \/ CleanupBegin("timer", FALSE)
  \/ CleanupReturn("timer")
  \/ \E c \in Callers : AgeStep(c)
  \/ \E c \in Callers : CountSelect(c)
  \/ \E c \in Callers : CountStep(c)
  \/ \E c \in Callers : SizeSelect(c)
  \/ \E c \in Callers : SizeStep(c)
  \/ StopServer
  \/ StopCleanup
  \/ StopExporter
  \/ StopWatcher
  \/ Close

SpecStop == IpcInit /\ [][StopNext]_vars

-----------------------------------------------------------------------------
(* The watcher alone: one FileWatcher on an empty index with export        *)
(* enabled; metadata files, well-formed or not, are written, handling one  *)
(* may fail at the Store or at the queue, and the watcher is stopped and   *)
(* started again.                                                          *)

\* A capture whose metadata file validates, or does not
WatcherCapture ==
  \E b \in RecIds :
    \E m \in Metadata({b}, {NULL}, {now}, {CastPath(b)}, {0}) :
      \E valid \in BOOLEAN :
        WriteMeta(b, [m EXCEPT !.valid = valid], 1, MiBPerGb \div 2)

WatcherNext ==
  \/ WatcherCapture
  \/ HandleNewRecording
  \/ IndexFails
  \/ Enqueue
  \/ EnqueueFails
  \/ WatcherStop
  \/ WatcherStart

SpecWatcher == IndexInit /\ [][WatcherNext]_vars

(* The watch loop is a task of the event loop: a change awatch has yielded
   is handed to the handler, and the handler's statements return. *)
WatcherRuns ==
  /\ WF_vars(HandleNewRecording \/ IndexFails)
  /\ WF_vars(Enqueue \/ EnqueueFails)

WatcherLive == IndexInit /\ [][WatcherNext]_vars /\ WatcherRuns

-----------------------------------------------------------------------------
(* The background loops under faults: the service stays up with export     *)
(* enabled, and a statement of the export worker or of the retention timer *)
(* may raise.  The sleeps of the loops end, and the event loop resumes the *)
(* tasks that are ready.                                                   *)

FaultsNext ==
  \/ Capture
  \/ Tick
  \/ HandleNewRecording
  \/ Enqueue
  \/ Claim
  \/ RenderOk(1)
  \/ RenderFail
  \/ FinishJob
  \/ WorkerFault
  \/ WorkerBackoff
  \/ CleanupBegin("timer", FALSE)
  \/ AgeStep("timer")
  \/ CountSelect("timer")
  \/ CountStep("timer")
  \/ SizeSelect("timer")
  \/ SizeStep("timer")
  \/ CleanupReturn("timer")
  \/ CleanupFault("timer")
  \/ CleanupBackoff("timer")

LoopsRun ==
  /\ WF_vars(WorkerBackoff)
  /\ WF_vars(CleanupBackoff("timer"))
  /\ WF_vars(CleanupBegin("timer", FALSE))

FaultsLive == IndexInit /\ [][FaultsNext]_vars /\ LoopsRun

-----------------------------------------------------------------------------
(* List requests against a Store that already holds recordings: clients   *)
(* connect and send list lines, nothing else runs.                         *)

ListedIds == {RecName[i] : i \in 1..MaxListed}

Chars == {"a", "A", "_", "%"}

\* The strings of at most MaxLen characters
Strings == UNION {[1..n -> Chars] : n \in 0..MaxLen}

ListedMeta(r, t, e, d) == [StoredMeta(r, t) EXCEPT !.exit_code = e, !.cwd = d]

\* The Store after the sessions of metas were captured and indexed
ListStore(metas) ==
  /\ meta_json = [p \in {MetaPath(r) : r \in DOMAIN metas} |-> metas[p[1]]]
  /\ files = [p \in {MetaPath(r) : r \in DOMAIN metas}
                      \cup {CastPath(r) : r \in DOMAIN metas} |-> 1]
  /\ recordings =
       [r \in DOMAIN metas |-> InsertOrReplace(<<>>, metas[r], MetaPath(r), now)[r]]
  /\ hist = [NoHistory(TimerOnly, FALSE) EXCEPT !.captured = DOMAIN metas]

\* Either up to MaxListed recordings with any timestamps, or two recordings
\* of which the older has any working directory and the newer any exit code
ListInit ==
  /\ now = SecondsPerDay
  /\ \/ \E n \in 0..MaxListed :
          \E ts \in [{RecName[i] : i \in 1..n} -> 1..MaxListed] :
            ListStore([r \in DOMAIN ts |-> ListedMeta(r, ts[r], 0, Home)])
     \/ \E d \in Strings \ {<<>>} :
          \E e \in {0, 1} :
            ListStore([r \in {RecName[1], RecName[2]} |->
                         IF r = RecName[1] THEN ListedMeta(r, 1, 0, d)
                                           ELSE ListedMeta(r, 2, e, Home)])
  /\ export_queue = <<>>
  /\ config = [gif_enabled |-> FALSE, max_age_days |-> 1, max_count |-> 1,
               max_size_gb |-> 1]
  /\ svc = [state |-> "up", starts |-> 1]
  /\ watcher = WatcherStarted(WatcherOff)
  /\ worker = WorkerIdle
  /\ cleaners = [c \in TimerOnly |-> CleanerWait]
  /\ server = ServerUp

\* {"action": "list", "limit": l, "offset": o}: limit and offset are whatever
\* integers the client wrote
PageLines ==
  {ListLine(l, o, FALSE, NULL) : l \in -1..MaxListed, o \in 0..MaxListed}

\* {"action": "list", "failed_only": f, "cwd": d}, cwd absent or a string
FilterLines ==
  {ListLine(50, 0, f, d) : f \in BOOLEAN, d \in {NULL} \cup Strings}

ListNext ==
  \/ Connect
  \/ \E c \in ConnIds : \E line \in PageLines : Send(c, line)
  \/ \E c \in ConnIds : \E line \in FilterLines : Send(c, line)
  \/ \E c \in ConnIds : HandleRequest(c)

SpecList == ListInit /\ [][ListNext]_vars

-----------------------------------------------------------------------------
(* Retention on its timer when a deletion can be interrupted: the loop     *)
(* backs off and a later run_cleanup meets the row again.                  *)

ResumeNext ==
  \/ CleanupNext
  \/ DeleteInterrupted("timer")
  \/ CleanupBackoff("timer")

SpecResume == CleanupInit /\ [][ResumeNext]_vars

-----------------------------------------------------------------------------
(* The export worker across shutdowns: captures are indexed, enqueued and  *)
(* rendered, the service is stopped at any point and started again.        *)

RestartNext ==
  \/ Capture
  \/ HandleNewRecording
  \/ Enqueue
  \/ Claim
  \/ RenderOk(1)
  \/ RenderFail
  \/ FinishJob
  \/ Start
  \/ StopServer
  \/ StopCleanup
  \/ StopExporter
  \/ StopWatcher
  \/ Close

(* A running worker takes its steps (WorkerRuns), a stop that has begun runs
   to its end, and a service that is down is started again. *)
Restarts ==
  /\ WorkerRuns
  /\ WF_vars(StopCleanup \/ StopExporter \/ StopWatcher \/ Close)
  /\ WF_vars(Start)

RestartLive == Init /\ [][RestartNext]_vars /\ Restarts

-----------------------------------------------------------------------------
(* Retention on its timer beside cleanup requests that are no dry runs:    *)
(* each request runs run_cleanup of a CleanupScheduler of its own on the   *)
(* one Indexer, a coroutine suspended at every statement on the Store.     *)

BothNext ==
  \/ Connect
  \/ \E c \in ConnIds : Send(c, Line("object", "cleanup", FALSE, ""))
  \/ \E c \in ConnIds : HandleCleanup(c)
  \/ \E c \in ConnIds : HandleCleanupEnd(c)
  \/ CleanupBegin("timer", FALSE)
  \/ CleanupReturn("timer")
  \/ \E c \in Callers : AgeStep(c)
  \/ \E c \in Callers : CountSelect(c)
  \/ \E c \in Callers : CountStep(c)
  \/ \E c \in Callers : SizeSelect(c)
  \/ \E c \in Callers : SizeStep(c)

SpecBoth == DryRunInit /\ [][BothNext]_vars

-----------------------------------------------------------------------------
(* Properties of the export queue *)

Status(q) == [j \in DOMAIN q |-> q[j].status]

Processing(q) == {j \in DOMAIN q : q[j].status = "processing"}

\* C1: in every execution, stops and restarts included, a job's status only
\* ever changes pending -> processing, processing -> done or processing ->
\* failed; a new job starts pending and no job leaves the table
C1_StatusTransitions ==
  [][/\ Len(export_queue') >= Len(export_queue)
     /\ \A j \in DOMAIN export_queue' :
          IF j \in DOMAIN export_queue
            THEN \/ export_queue'[j].status = export_queue[j].status
                 \/ /\ export_queue[j].status = "pending"
                    /\ export_queue'[j].status = "processing"
                 \/ /\ export_queue[j].status = "processing"
                    /\ export_queue'[j].status \in {"done", "failed"}
            ELSE export_queue'[j].status = "pending"]_vars

\* The service has been restarted: the job the stopped worker was rendering
\* is still processing, and the new worker has run another job to its end
C1_Witness ==
  /\ svc.starts > 1
  /\ worker.pc = "idle"
  /\ \E i, j \in DOMAIN export_queue :
       /\ export_queue[i].status = "processing"
       /\ export_queue[j].status \in {"done", "failed"}

\* C2: whenever the worker claims a job, no job created earlier is pending
C2_ClaimIsFifo ==
  [][\A j \in DOMAIN export_queue :
       (export_queue[j].status = "pending" /\ export_queue'[j].status = "processing")
         => \A k \in DOMAIN export_queue :
              (k < j /\ export_queue[k].created_at < export_queue[j].created_at)
                => export_queue[k].status # "pending"]_vars

\* C3: a new job is pending; the cycle that claimed a job ends with the job
\* done and the recording's artifact path set when the render succeeded, and
\* with the job failed, its error text not empty and the artifact path as it
\* was before the cycle when the render failed
C3_JobLifecycle ==
  [][/\ \A j \in DOMAIN export_queue' \ DOMAIN export_queue :
          export_queue'[j].status = "pending"
     /\ (worker.pc = "rendered" /\ worker'.pc = "idle")
          => /\ export_queue'[worker.queue_id].status = "done"
             /\ worker.recording_id \in DOMAIN recordings'
             /\ recordings'[worker.recording_id].gif_path # NULL
     /\ (worker.pc = "rendering" /\ worker'.pc = "idle")
          => /\ export_queue'[worker.queue_id].status = "failed"
             /\ export_queue'[worker.queue_id].error # ""
             /\ worker.recording_id \in DOMAIN recordings'
                  => recordings'[worker.recording_id].gif_path = hist.gif_before]_vars

\* C4: a failed job is never claimed or retried again, and while the worker
\* loop keeps running every job that is pending behind a failed job is
\* eventually claimed
BehindFailed(q, j) ==
  /\ j \in DOMAIN q
  /\ q[j].status = "pending"
  /\ \E k \in 1..(j - 1) : q[k].status = "failed"

C4_FailedNeverBlocks ==
  /\ [][\A j \in DOMAIN export_queue :
          export_queue[j].status = "failed" => export_queue'[j].status = "failed"]_vars
  /\ \A j \in 1..MaxJobs :
       BehindFailed(export_queue, j)
         ~> (j \in DOMAIN export_queue /\ export_queue[j].status # "pending")

\* C5: in every reachable state at most one job is processing
C5_AtMostOneProcessing == Cardinality(Processing(export_queue)) <= 1

-----------------------------------------------------------------------------
(* Properties of the Recording Store *)

\* C6: indexing the same metadata file again leaves one row for the
\* identifier, and the row's indexed_at is still the value of the first
\* insertion
C6_UpsertKeepsIndexedAt ==
  \A r \in DOMAIN recordings :
    /\ r \in DOMAIN hist.first_indexed
    /\ recordings[r].indexed_at = hist.first_indexed[r]

\* C7: no two recordings in the Store carry the same non-null
\* external-history identifier
C7_AtuinIdUnique ==
  \A r1, r2 \in DOMAIN recordings :
    (recordings[r1].atuin_id # NULL /\ recordings[r1].atuin_id = recordings[r2].atuin_id)
      => r1 = r2

\* Two captures carry the same external-history identifier, both were
\* indexed (their files are there and no event for them is waiting), and
\* the later one has replaced the earlier one
C7_Witness ==
  \E r1, r2 \in RecIds :
    /\ r1 # r2
    /\ MetaPath(r1) \in DOMAIN meta_json
    /\ MetaPath(r2) \in DOMAIN meta_json
    /\ meta_json[MetaPath(r1)].atuin_id # NULL
    /\ meta_json[MetaPath(r1)].atuin_id = meta_json[MetaPath(r2)].atuin_id
    /\ watcher.events = {}
    /\ watcher.pc = "watching"
    /\ r1 \notin DOMAIN recordings
    /\ r2 \in DOMAIN recordings

-----------------------------------------------------------------------------
(* Properties of retention, read off the history of the timer's run_cleanup *)

Run == hist.run["timer"]

Budget == MaxBytes(config.max_size_gb)

RemovedBy(pass) == {i \in DOMAIN Run.removed : Run.removed[i].pass = pass}

RemovedIds(pass) == {Run.removed[i].id : i \in RemovedBy(pass)}

\* run_cleanup is about to return
Returning ==
  /\ cleaners["timer"].pc = "size"
  /\ \/ cleaners["timer"].cands = <<>>
     \/ cleaners["timer"].current_size <= Budget

\* C8: run_cleanup removes every recording (of the Store it is called on)
\* whose timestamp is older than now - max age, and its age pass removes no
\* recording whose timestamp is at or after that cutoff
C8_AgePass ==
  LET cutoff == Cutoff(Run.began_at, config.max_age_days)
  IN  /\ \A i \in RemovedBy("age") :
           /\ Run.removed[i].hit
           /\ Run.removed[i].timestamp < cutoff
      /\ cleaners["timer"].pc \in {"count", "size"}
           => \A r \in DOMAIN Run.begin :
                Run.begin[r] < cutoff => r \notin DOMAIN recordings

\* The age pass is over: it has removed a recording and left one stamped
\* exactly at the cutoff
C8_Witness ==
  /\ cleaners["timer"].pc = "count"
  /\ RemovedBy("age") # {}
  /\ \E r \in DOMAIN Run.begin :
       /\ Run.begin[r] = Cutoff(Run.began_at, config.max_age_days)
       /\ r \in DOMAIN recordings

\* The recordings the count pass found and did not remove
CountKept == DOMAIN Run.after_age \ RemovedIds("count")

CountPassExact ==
  /\ \/ Cardinality(CountKept) = config.max_count
     \/ /\ Cardinality(CountKept) < config.max_count
        /\ RemovedIds("count") = {}
  /\ RemovedIds("count") \subseteq DOMAIN Run.after_age
  /\ \A k \in CountKept :
       \A r \in RemovedIds("count") : Run.after_age[k] >= Run.after_age[r]

\* C9 as stated: when a run_cleanup with no ingestion during it completes, at
\* most max_count recordings remain, the count pass removed exactly the
\* recordings beyond the newest max_count by timestamp, and the newest
\* max_count that survived the age pass are all still in the Store
C9_CountPassKeepsNewest ==
  (Returning /\ ~Run.ingested)
    => /\ Cardinality(DOMAIN recordings) <= config.max_count
       /\ CountPassExact
       /\ CountKept \subseteq DOMAIN recordings

\* C9 amended: ... and each of the newest max_count that survived the age
\* pass is still in the Store unless the size pass of the same run removed it
C9_CountPass ==
  (Returning /\ ~Run.ingested)
    => /\ Cardinality(DOMAIN recordings) <= config.max_count
       /\ CountPassExact
       /\ CountKept \subseteq DOMAIN recordings \cup RemovedIds("size")

\* A run with no ingestion is about to return: its count pass removed a
\* recording and kept max_count of them, which are all still there
C9_Witness ==
  /\ Returning
  /\ ~Run.ingested
  /\ RemovedBy("count") # {}
  /\ Cardinality(CountKept) = config.max_count
  /\ CountKept \subseteq DOMAIN recordings

RECURSIVE FreedBefore(_)
FreedBefore(i) ==
  IF i <= 1 THEN 0
  ELSE FreedBefore(i - 1)
         + (IF Run.removed[i - 1].pass = "size" THEN Run.removed[i - 1].freed ELSE 0)

SizePassBudget ==
  /\ Run.size_initial <= Budget => RemovedBy("size") = {}
  /\ \A i \in RemovedBy("size") :
       /\ Run.removed[i].before = Run.size_initial - FreedBefore(i)
       /\ Run.removed[i].before > Budget
  /\ \A i, j \in RemovedBy("size") :
       i < j => Run.removed[i].timestamp <= Run.removed[j].timestamp

\* C10 as stated: the size pass deletes nothing when the tree is within the
\* budget; otherwise it deletes oldest first, only while the running total
\* (initial size minus freed bytes) is over the budget, and never deletes a
\* recording while a recording with an older timestamp is in the Store
C10_SizePassOldestInStore ==
  /\ SizePassBudget
  /\ \A i \in RemovedBy("size") : ~Run.removed[i].older_left

\* C10 amended: ... and never deletes a recording while a recording with an
\* older timestamp that was in the Store when the pass selected its
\* candidates is still in the Store
C10_SizePass ==
  /\ SizePassBudget
  /\ \A i \in RemovedBy("size") : ~Run.removed[i].older_listed

\* The size pass has deleted the oldest recording and stopped within the
\* budget with a newer candidate left
C10_Witness ==
  /\ cleaners["timer"].pc = "size"
  /\ RemovedBy("size") # {}
  /\ cleaners["timer"].cands # <<>>
  /\ cleaners["timer"].current_size <= Budget

-----------------------------------------------------------------------------
(* Properties of cleanup requested over IPC *)

\* The response written on connection c, once it is closed
Response(c) == server.conns[c].out[1]

Answered(c, kind) ==
  /\ c \in DOMAIN server.conns
  /\ server.conns[c].pc = "closed"
  /\ Len(server.conns[c].out) = 1
  /\ Response(c).kind = kind

\* A step of the cleanup that connection c asked for with dry_run
DryRunStep(c) ==
  /\ c \in DOMAIN server.conns
  /\ server.conns[c].line.action = "cleanup"
  /\ server.conns[c].line.dry_run
  /\ server'.conns[c] # server.conns[c] \/ cleaners'[c] # cleaners[c]

\* C11: no step of a cleanup run with dry_run = true, from the request to the
\* response, changes a row of the Store or a file of the tree, whatever the
\* policy and the content of the Store
C11_DryRunChangesNothing ==
  [][\A c \in ConnIds : DryRunStep(c) => UNCHANGED <<recordings, files, meta_json>>]_vars

\* A dry run that counted a recording has answered, and the recording is there
C11_Witness ==
  \E c \in ConnIds :
    /\ Answered(c, "cleanup")
    /\ server.conns[c].line.dry_run
    /\ Response(c).deleted_count > 0
    /\ \A d \in DOMAIN server.conns : server.conns[d].line.dry_run
    /\ DOMAIN recordings = hist.captured
    /\ recordings # <<>>

\* C12: a cleanup with dry_run = true answers with the deleted_count and the
\* freed_bytes that the cleanup without dry_run answers with from the same
\* state (the request that follows it, nothing having changed in between),
\* a recording that is a candidate of several passes being counted once
C12_DryRunPredicts ==
  \A c, d \in ConnIds :
    /\ ConnIndex(d) = ConnIndex(c) + 1
    /\ Answered(c, "cleanup")
    /\ Answered(d, "cleanup")
    /\ server.conns[c].line.dry_run
    /\ ~server.conns[d].line.dry_run
    => /\ Response(c).deleted_count = Response(d).deleted_count
       /\ Response(c).freed_bytes = Response(d).freed_bytes

\* The part of C12 about the count alone
C12_DryRunCount ==
  \A c, d \in ConnIds :
    /\ ConnIndex(d) = ConnIndex(c) + 1
    /\ Answered(c, "cleanup")
    /\ Answered(d, "cleanup")
    /\ server.conns[c].line.dry_run
    /\ ~server.conns[d].line.dry_run
    => Response(c).deleted_count = Response(d).deleted_count

\* The files of the tree that share the base name of recording r
BackingFiles(fs, r) == {p \in DOMAIN fs : p[1] = r}

\* C13: when retention deletes a recording, no file with its base name is
\* left (metadata file, transcript, rendered artifact, still frame), and
\* freed_bytes grows by exactly the sum of the sizes those files had
C13_DeletesEveryBackingFile ==
  [][\A r \in DOMAIN recordings \ DOMAIN recordings' :
       /\ BackingFiles(files', r) = {}
       /\ cleaners'["timer"].freed_bytes - cleaners["timer"].freed_bytes
            = SumOver(files, BackingFiles(files, r))]_vars

-----------------------------------------------------------------------------
(* Properties of the IPC server *)

KnownActions == {"status", "list", "get", "cleanup"}

\* C14: on a connection whose client sent a line, whatever the line, the
\* server writes nothing before it closes and exactly one line of JSON when
\* it closes; an object with an unknown action X is answered with
\* {"error": "Unknown action: X"}; and the server goes on listening
C14_OneLineThenClose ==
  /\ \A c \in DOMAIN server.conns :
       LET conn == server.conns[c]
       IN  /\ conn.pc # "closed" => conn.out = <<>>
           /\ conn.pc = "closed" => Len(conn.out) = 1
           /\ /\ conn.pc = "closed"
              /\ conn.line.json = "object"
              /\ conn.line.action \notin KnownActions
              => conn.out[1] = ErrorReply(<<"Unknown action: ", conn.line.action>>)
  /\ svc.state = "up" => server.listening

\* An unknown action and a line that is no JSON were both answered, and the
\* server is listening
C14_Witness ==
  /\ server.listening
  /\ \E c, d \in DOMAIN server.conns :
       /\ server.conns[c].line.action = "bogus"
       /\ Answered(c, "error")
       /\ server.conns[d].line.json = "invalid"
       /\ Answered(d, "error")

\* C15: the two counts of a status response are counts of one state of the
\* Store, so failed_count never exceeds total_count, whatever ingestion or
\* cleanup does during the request
C15_StatusIsOneSnapshot ==
  \A c \in ConnIds :
    Answered(c, "status") => Response(c).failed_count <= Response(c).total_count

\* The response on connection c answers the line its client sent
OwnResponse(c) ==
  LET line == server.conns[c].line
      reply == Response(c)
  IN  IF line.json \in {"invalid", "eof"}
        THEN reply = ErrorReply(<<"Expecting value">>)
      ELSE IF line.json # "object"
        THEN reply = ErrorReply(<<"object has no attribute 'get'">>)
      ELSE IF line.action \notin KnownActions
        THEN reply = ErrorReply(<<"Unknown action: ", line.action>>)
      ELSE /\ reply.kind = line.action
           /\ line.action = "get" /\ line.id \in RecIds
                => reply.recordings \in {<<>>, <<line.id>>}

-----------------------------------------------------------------------------
(* Properties of shutdown *)

Stopping(states) == svc.state \in states

\* The components are stopped in the order IPC server, retention scheduler,
\* export queue, watcher, and the Store is closed after all of them
StopOrder ==
  /\ svc.state # "up" => ~server.listening
  /\ Stopping({"stop_exporter", "stop_watcher", "close", "down"})
       => cleaners["timer"].pc = "off"
  /\ Stopping({"stop_watcher", "close", "down"}) => worker.pc = "off"
  /\ Stopping({"close", "down"}) => watcher.pc = "off"
  /\ Stopping({"stop_cleanup", "stop_exporter", "stop_watcher", "close"}) => StoreOpen

\* A handler's statement was queued on the Store after close()
UsedClosedStore(c) ==
  /\ c \in DOMAIN server.conns
  /\ server.conns[c].pc = "closed"
  /\ Response(c) = StoreClosed

\* C17: shutdown stops the IPC server, the retention scheduler, the export
\* queue and the watcher in that order and closes the Store last, and no
\* component, a request being handled included, runs a Store operation
\* after the Store is closed
C17_StoreClosedLast ==
  /\ StopOrder
  /\ \A c \in ConnIds : ~UsedClosedStore(c)

\* C18: stopping a background loop waits for its current iteration: the
\* export worker is stopped only between two jobs and the retention timer
\* only between two cleanup cycles, never while a job is being rendered or
\* a cleanup is deleting
C18_StopWaitsForIteration ==
  [][/\ worker.pc # "off" /\ worker'.pc = "off" => worker.pc = "idle"
     /\ cleaners["timer"].pc # "off" /\ cleaners'["timer"].pc = "off"
          => cleaners["timer"].pc = "wait"]_vars

-----------------------------------------------------------------------------
(* Properties of the watcher *)

\* C19: a watcher that was stopped and started again invokes the handler
\* for a qualifying file created after the start (unless it is stopped
\* again first), and a stopped watcher invokes the handler for no file
C19_WatcherRestarts ==
  /\ \A b \in RecIds :
       b \in hist.late ~> (MetaPath(b) \in hist.handled \/ watcher.pc = "off")
  /\ [][watcher.pc = "off" => hist'.handled = hist.handled]_vars

\* The second half of C19 alone
C19_StoppedIsSilent == [][watcher.pc = "off" => hist'.handled = hist.handled]_vars

\* C20: a failure while one file is handled (metadata that cannot be read
\* or validated, a Store write error, an enqueue error) leaves no row for
\* that file in the Store and leaves the watch loop running
C20_FailureIsolated ==
  [][\A p \in hist'.failed \ hist.failed :
       /\ StemId(p) \notin DOMAIN recordings'
       /\ watcher'.pc = "watching"]_vars

\* The parts of C20 about the loop: it runs on after a failure
C20_LoopGoesOn ==
  [][hist'.failed # hist.failed => watcher'.pc = "watching"]_vars

-----------------------------------------------------------------------------
(* Properties of the background loops *)

\* C21: while the service is not stopped, an exception that reaches the
\* export worker loop or the retention timer loop does not end the loop:
\* after its backoff sleep the loop runs another iteration
C21_LoopsSurviveFaults ==
  /\ [](worker.pc # "off" /\ cleaners["timer"].pc # "off")
  /\ (worker.pc = "backoff") ~> (worker.pc = "idle")
  /\ (cleaners["timer"].pc = "backoff") ~> (cleaners["timer"].pc = "age")

\* The worker renders a job while the job of a cycle that raised is still
\* in processing, and the timer is in its backoff
C21_Witness ==
  /\ worker.pc = "rendering"
  /\ \E j \in DOMAIN export_queue :
       j # worker.queue_id /\ export_queue[j].status = "processing"
  /\ cleaners["timer"].pc = "backoff"

-----------------------------------------------------------------------------
(* Properties of list requests *)

\* Connection c's list request is answered in this step
ListStep(c) ==
  /\ c \in DOMAIN server.conns
  /\ server.conns[c].pc = "received"
  /\ server.conns[c].line.json = "object"
  /\ server.conns[c].line.action = "list"
  /\ server'.conns[c].pc = "closed"

\* The Store's recordings from the newest to the oldest
ByTimestampDesc(recs) ==
  Orderings(DOMAIN recs, LAMBDA a, b : recs[a].timestamp > recs[b].timestamp)

\* The rows at positions first..last, the first row being at position 0
Positions(rows, first, last) ==
  LET lo == IF first < 0 THEN 0 ELSE first
      hi == IF last >= Len(rows) THEN Len(rows) - 1 ELSE last
  IN  [i \in 1..(IF hi < lo THEN 0 ELSE hi - lo + 1) |-> rows[lo + i]]

DistinctTimestamps(recs) ==
  \A a, b \in DOMAIN recs : a # b => recs[a].timestamp # recs[b].timestamp

\* What the claim says of the answer out to a list request without filters
PageOfSorted(recs, line, out) ==
  /\ \E rows \in ByTimestampDesc(recs) :
       out = Positions(rows, line.offset, line.offset + line.limit - 1)
  /\ Len(out) <= line.limit
  /\ DistinctTimestamps(recs) =>
       \A i, j \in DOMAIN out : i < j => recs[out[i]].timestamp > recs[out[j]].timestamp

\* C22: a list request with limit and offset and no filter is answered with
\* exactly the recordings at positions offset .. offset+limit-1 of the Store
\* sorted by timestamp descending: at most limit of them, and in strictly
\* descending order when the timestamps are distinct
C22_ListIsPageOfSorted ==
  [][\A c \in ConnIds :
       (ListStep(c) /\ ~server.conns[c].line.failed_only
                    /\ server.conns[c].line.cwd = NULL)
         => PageOfSorted(recordings, server.conns[c].line,
                         server'.conns[c].out[1].recordings)]_vars

\* C22 for a limit that is a natural number: the same, and two requests for
\* consecutive pages are answered with no row missing and none twice
C22_NaturalLimit ==
  /\ [][\A c \in ConnIds :
          (ListStep(c) /\ ~server.conns[c].line.failed_only
                       /\ server.conns[c].line.cwd = NULL
                       /\ server.conns[c].line.limit >= 0)
            => PageOfSorted(recordings, server.conns[c].line,
                            server'.conns[c].out[1].recordings)]_vars
  /\ [](\A c, d \in DOMAIN server.conns :
          LET p == server.conns[c].line
              q == server.conns[d].line
          IN  (/\ Answered(c, "list") /\ Answered(d, "list")
               /\ p \in PageLines /\ q \in PageLines
               /\ p.limit > 0 /\ q.limit = p.limit /\ q.offset = p.offset + p.limit
               /\ DistinctTimestamps(recordings))
                => \E rows \in ByTimestampDesc(recordings) :
                     Response(c).recordings \o Response(d).recordings
                       = Positions(rows, p.offset, p.offset + 2 * p.limit - 1))

\* x starts with p, character for character
StartsWith(x, p) == Len(p) <= Len(x) /\ SubSeq(x, 1, Len(p)) = p

\* C23: a list request with cwd = P is answered with exactly the recordings
\* whose working directory starts with P, a literal and case-sensitive prefix,
\* for every P and every stored working directory
C23_CwdIsLiteralPrefix ==
  [][\A c \in ConnIds :
       (ListStep(c) /\ server.conns[c].line \in FilterLines
                    /\ ~server.conns[c].line.failed_only
                    /\ server.conns[c].line.cwd # NULL)
         => {server'.conns[c].out[1].recordings[i] :
               i \in DOMAIN server'.conns[c].out[1].recordings}
              = {r \in DOMAIN recordings :
                   StartsWith(recordings[r].cwd, server.conns[c].line.cwd)}]_vars

-----------------------------------------------------------------------------
(* Properties of export on ingest *)

\* The jobs the step adds to the queue
NewJobs == DOMAIN export_queue' \ DOMAIN export_queue

\* C24: the handling of a metadata file enqueues exactly one pending job for
\* its recording when indexing succeeded and export on ingest is enabled, and
\* no job when indexing failed or the flag is off
C24_OneJobPerIndexedFile ==
  [][/\ (watcher.pc = "enqueue" /\ watcher'.pc # "enqueue")
         => /\ Cardinality(NewJobs) = 1
            /\ \A j \in NewJobs :
                 /\ export_queue'[j].recording_id = StemId(watcher.path)
                 /\ export_queue'[j].status = "pending"
     /\ (watcher.pc = "watching" /\ watcher'.pc # "enqueue")
         => NewJobs = {}]_vars

\* C25: a job's completion time is set exactly when its status is done or
\* failed, and its error text exactly when its status is failed
C25_CompletionFields ==
  \A j \in DOMAIN export_queue :
    /\ export_queue[j].completed_at # 0 <=> export_queue[j].status \in {"done", "failed"}
    /\ export_queue[j].error # "" <=> export_queue[j].status = "failed"

\* C25 without the completion time of a failed job: what the code keeps
C25_DoneAndError ==
  \A j \in DOMAIN export_queue :
    /\ export_queue[j].completed_at # 0 <=> export_queue[j].status = "done"
    /\ export_queue[j].error # "" <=> export_queue[j].status = "failed"

-----------------------------------------------------------------------------
(* Properties of an interrupted deletion *)

\* The rows the step takes out of the Store
RowsRemoved == DOMAIN recordings \ DOMAIN recordings'

\* The cleaner passes its next candidate in this step
Passes(c) ==
  /\ cleaners[c].pc \in {"age", "count", "size"}
  /\ cleaners'[c].pc = cleaners[c].pc
  /\ cleaners[c].cands # <<>>
  /\ cleaners'[c].cands = Tail(cleaners[c].cands)

\* C26: retention removes a recording's files before its row: in no state
\* is a row that retention removed gone while its metadata file is on disk,
\* and a run that meets a candidate whose files are partly or wholly missing
\* passes it without an error, removes its row and adds to freed_bytes only
\* the sizes of the files it found
C26_FilesBeforeRow ==
  [][/\ \A r \in RowsRemoved : recordings[r].meta_path \notin DOMAIN files'
     /\ Passes("timer") =>
          /\ Head(cleaners["timer"].cands).id \notin DOMAIN recordings'
          /\ cleaners'["timer"].freed_bytes - cleaners["timer"].freed_bytes
               = SumOver(files, DOMAIN files \ DOMAIN files')
     /\ (cleaners["timer"].pc \in {"age", "count", "size"}
           /\ cleaners'["timer"].pc = "backoff")
          => RowsRemoved = {}]_vars

\* A run after an interrupted one has removed a row whose metadata file was
\* already gone (every metadata file has size 1, so it freed nothing)
C26_Witness ==
  \E i \in DOMAIN hist.run["timer"].removed :
    /\ hist.run["timer"].removed[i].hit
    /\ hist.run["timer"].removed[i].freed = 0
    /\ hist.run["timer"].removed[i].id \notin DOMAIN recordings

-----------------------------------------------------------------------------
(* Properties of indexing *)

\* The handler takes the event for p in this step
IndexStep(p) ==
  /\ watcher.pc = "watching"
  /\ p \in watcher.events
  /\ watcher'.pc \in {"watching", "enqueue"}
  /\ p \notin watcher'.events

\* C27: indexing a metadata file whose identifier is X adds or replaces the
\* row X only: every recording with another identifier is still in the Store
\* and unchanged, whatever external-history identifier the metadata carries
C27_IndexTouchesOneRow ==
  [][\A p \in DOMAIN meta_json :
       IndexStep(p) =>
         \A r \in DOMAIN recordings \ {meta_json[p].id} :
           r \in DOMAIN recordings' /\ recordings'[r] = recordings[r]]_vars

\* C27 for metadata that carries no external-history identifier, or one that
\* no other recording holds
C27_UnlinkedTouchesOneRow ==
  [][\A p \in DOMAIN meta_json :
       (IndexStep(p) /\ \A r \in DOMAIN recordings \ {meta_json[p].id} :
                          \/ meta_json[p].atuin_id = NULL
                          \/ recordings[r].atuin_id # meta_json[p].atuin_id)
         => \A r \in DOMAIN recordings \ {meta_json[p].id} :
              r \in DOMAIN recordings' /\ recordings'[r] = recordings[r]]_vars

-----------------------------------------------------------------------------
(* Properties of the export worker over time *)

\* C28: while the worker loop runs, every pending job is eventually claimed,
\* whether its recording is in the Store, was deleted by retention, or was
\* never indexed
C28_PendingIsClaimed ==
  \A j \in 1..MaxJobs :
    (j \in DOMAIN export_queue /\ export_queue[j].status = "pending")
      ~> (j \in DOMAIN export_queue /\ export_queue[j].status # "pending")

\* C28 for the jobs whose recording stays in the Store
C28_JoinedIsClaimed ==
  \A j \in 1..MaxJobs :
    (j \in DOMAIN export_queue /\ export_queue[j].status = "pending")
      ~> (j \in DOMAIN export_queue
            /\ \/ export_queue[j].status # "pending"
               \/ export_queue[j].recording_id \notin DOMAIN recordings)

\* C29: every job that enters processing eventually reaches done or failed
\* in a period where the worker runs, also when the worker was stopped while
\* rendering it and the service was started again later
C29_ProcessingEnds ==
  \A j \in 1..MaxJobs :
    (j \in DOMAIN export_queue /\ export_queue[j].status = "processing")
      ~> \/ j \in DOMAIN export_queue /\ export_queue[j].status \in {"done", "failed"}
         \/ svc.state # "up"

\* C29 for a job whose worker is not stopped: the cycle that claimed it ends
C29_CycleEnds ==
  (worker.pc \in {"rendering", "rendered"})
    ~> \/ worker.pc = "off"
       \/ /\ worker.pc = "idle"
          /\ \E j \in DOMAIN export_queue : export_queue[j].status \in {"done", "failed"}

\* C30: whenever the worker marks a job done, the job's recording is in the
\* Store and its artifact path is set at that moment, also when retention or
\* a re-index runs between the render and the mark
C30_DoneHasArtifact ==
  [][\A j \in DOMAIN export_queue :
       (export_queue[j].status # "done" /\ export_queue'[j].status = "done")
         => /\ export_queue[j].recording_id \in DOMAIN recordings'
            /\ recordings'[export_queue[j].recording_id].gif_path # NULL]_vars

-----------------------------------------------------------------------------
(* Properties of concurrent cleanups *)

\* C31: the deleted_count of a run_cleanup that is not a dry run is the
\* number of rows that call removed from the Store: each candidate it passes
\* adds to its count exactly the rows that leave the Store in that step, so
\* a recording removed while the timer's cleanup and a requested one
\* interleave is counted by one of them only
C31_CountsRowsRemoved ==
  [][\A c \in Callers :
       (Passes(c) /\ ~cleaners[c].dry_run)
         => cleaners'[c].deleted_count - cleaners[c].deleted_count
              = Cardinality(RowsRemoved)]_vars
====
